---------------------------- MODULE Spec2Model ----------------------------
(***************************************************************************)
(* Model of cmd/vgpu-monitor/metrics.go: ClusterManagerCollector.Collect,  *)
(* the Prometheus collector of the vGPU monitor.  One Collect call is a    *)
(* sequence of steps over locals private to the call (one "caller" per     *)
(* concurrent scrape); the container lister is the only state shared       *)
(* between calls.  The NVML driver, the pod lister, the wall clock and the *)
(* node's container directories are the environment: each call of them     *)
(* returns one of the results listed in env.                               *)
(*                                                                         *)
(* Strings that the code slices or formats (UUIDs, fmt.Sprint results) are *)
(* sequences of one-character strings; names that are only compared are    *)
(* TLA+ strings.  Every numeric value of the model is far below 2^53, where*)
(* float64(x) and int(uint64) are exact.                                   *)
(***************************************************************************)
EXTENDS Integers, Sequences, FiniteSets, TLC

VARIABLES
    env,            \* the environment of this run (fixed after Init)
    registry,       \* ContainerLister's containers, as ListContainers returns them
    pc,             \* pc[s]: the step caller s is about to run
    ran,            \* ran[s]: the steps of Collect caller s has run in this call
    errs,           \* errs[s]: the failed calls of this call's own steps (Update,
                    \*          Init, DeviceGetCount, List)
    memFailed,      \* memFailed[s]: device indices whose GetMemoryInfo failed
    uuidFailed,     \* uuidFailed[s]: device indices whose GetUUID failed
    utilFailed,     \* utilFailed[s]: device indices whose GetUtilizationRates failed
    devnum,         \* devnum[s]: result of DeviceGetCount
    ii,             \* ii[s]: loop variable of the device loop
    pods,           \* pods[s]: result of PodLister.List
    nowSec,         \* nowSec[s]: time.Now().Unix()
    containers,     \* containers[s]: result of ListContainers
    pidx,           \* pidx[s]: position of the pod loop (1-based)
    cidx,           \* cidx[s]: position of the container loop (1-based)
    ch              \* ch[s]: the samples sent to the call's channel, in order

vars == <<env, registry, pc, ran, errs, memFailed, uuidFailed, utilFailed,
          devnum, ii, pods, nowSec, containers, pidx, cidx, ch>>

locals == <<ran, errs, memFailed, uuidFailed, utilFailed,
            devnum, ii, pods, nowSec, containers, pidx, cidx, ch>>

----------------------------------------------------------------------------
(* Bounds and program constants *)

\* The largest number of physical GPUs a host of the model has.
MaxDevices == 2

\* uuid := c.Info.DeviceUUID(i)[0:40]
UuidLabelLen == 40

\* The callers that may run Collect (overlapping scrape requests).
Callers == {1, 2}

EmptyStr == <<>>

----------------------------------------------------------------------------
(* Strings *)

Digit(d) == CASE d = 0 -> "0" [] d = 1 -> "1" [] d = 2 -> "2" [] d = 3 -> "3"
              [] d = 4 -> "4" [] d = 5 -> "5" [] d = 6 -> "6" [] d = 7 -> "7"
              [] d = 8 -> "8" [] d = 9 -> "9"

\* fmt.Sprint of a non-negative integer: its decimal digits.
RECURSIVE Sprint(_)
Sprint(n) == IF n < 10 THEN <<Digit(n)>>
             ELSE Sprint(n \div 10) \o <<Digit(n % 10)>>

\* Go's s[lo:hi] panics unless lo <= hi <= len(s).
SliceInRange(str, lo, hi) == 0 <= lo /\ lo <= hi /\ hi <= Len(str)

Slice(str, lo, hi) == SubSeq(str, lo + 1, hi)

\* A UUID string of n bytes: a letter, then the decimal digit of each position.
UuidStr(n, letter) == [j \in 1..n |-> IF j = 1 THEN letter ELSE Digit(j % 10)]

----------------------------------------------------------------------------
(* The environment: what the collaborators hold and return *)

Pod(uid, namespace, name, ctrs) ==
    [uid |-> uid, namespace |-> namespace, name |-> name, containers |-> ctrs]

DeviceUsage(uuid, total, limit, context, module, buffer, offset, smUtil) ==
    [uuid |-> uuid, memoryTotal |-> total, memoryLimit |-> limit,
     contextSize |-> context, moduleSize |-> module, bufferSize |-> buffer,
     offset |-> offset, smUtil |-> smUtil]

\* A container of the lister: hasInfo = FALSE stands for c.Info == nil.
ContainerUsage(podUID, ctrName, hasInfo, devices, lastKernelTime) ==
    [podUID |-> podUID, containerName |-> ctrName, hasInfo |-> hasInfo,
     devices |-> devices, lastKernelTime |-> lastKernelTime]

podA == Pod("p1", "ns", "pod-a", <<"c1", "c2">>)
podB == Pod("p2", "ns", "pod-b", <<"c1">>)

\* Two slots, UUIDs of 41 and 40 bytes, no kernel observed yet.
recA1 == ContainerUsage("p1", "c1", TRUE,
            <<DeviceUsage(UuidStr(41, "G"), 1024, 2048, 10, 20, 30, 40, 55),
              DeviceUsage(UuidStr(40, "H"), 512, 4096, 11, 21, 31, 41, 7)>>, 0)
\* One slot, last kernel at second 200.
recA2 == ContainerUsage("p1", "c2", TRUE,
            <<DeviceUsage(UuidStr(40, "G"), 300, 600, 1, 2, 3, 4, 90)>>, 200)
\* A container of pod p2 whose usage file is not mapped yet.
recB1nil == ContainerUsage("p2", "c1", FALSE, <<>>, 0)
\* A container of a pod the cache does not hold.
recGone == ContainerUsage("p3", "c1", TRUE,
            <<DeviceUsage(UuidStr(40, "G"), 64, 128, 1, 1, 1, 1, 5)>>, 200)
\* A container name pod p2 does not declare.
recB9 == ContainerUsage("p2", "c9", TRUE,
            <<DeviceUsage(UuidStr(40, "H"), 64, 128, 1, 1, 1, 1, 5)>>, 200)
\* A negative last-kernel time.
recB1 == ContainerUsage("p2", "c1", TRUE,
            <<DeviceUsage(UuidStr(42, "H"), 700, 800, 5, 6, 7, 8, 33)>>, 0 - 5)
\* The second slot carries a UUID of 39 bytes.
recShort == ContainerUsage("p1", "c2", TRUE,
            <<DeviceUsage(UuidStr(40, "G"), 300, 600, 1, 2, 3, 4, 90),
              DeviceUsage(UuidStr(39, "H"), 301, 601, 1, 2, 3, 4, 91)>>, 200)

NodeA == <<recA1, recB1nil, recA2, recGone>>
NodeB == <<recB9, recB1, recShort>>

PodListAB == <<podA, podB>>
PodListB == <<podB>>

\* What the driver reports for physical device i.
MemoryUsedOf(i) == 1024 * (i + 1)
UtilGpuOf(i) == 10 * (i + 1)
DeviceUuidOf(i) == UuidStr(UuidLabelLen, IF i % 2 = 0 THEN "G" ELSE "H")

FaultKinds == {"update", "init", "count", "handle", "memory", "uuid", "util", "pods"}

\* The results a call that can fail with `kind` may have: TRUE is success.
Outcomes(kind) == IF kind \in env.faults THEN {TRUE, FALSE} ELSE {TRUE}

----------------------------------------------------------------------------
(* Samples *)

HostDescs == {"HostGPUMemoryUsage", "HostCoreUtilization"}

CtrDescs == {"vGPU_device_memory_usage_in_bytes", "vGPU_device_memory_limit_in_bytes",
             "Device_memory_desc_of_container", "Device_utilization_desc_of_container",
             "Device_last_kernel_of_container"}

\* prometheus.MustNewConstMetric(desc, valueType, value, labelValues...)
Sample(desc, typ, value, namespace, pod, ctr, idx, uuid, extra) ==
    [desc |-> desc, typ |-> typ, value |-> value, podnamespace |-> namespace,
     podname |-> pod, ctrname |-> ctr, idx |-> idx, deviceuuid |-> uuid,
     extra |-> extra]

HostSample(desc, value, i, uuid) ==
    Sample(desc, "gauge", value, "", "", "", Sprint(i), uuid, <<>>)


----------------------------------------------------------------------------
(* The device loop body: what one device sends (lines 159-188) *)

\* memoryUsed := 0; it is overwritten only when GetMemoryInfo succeeds.
MemoryUsed(memOk, used) == IF memOk THEN used ELSE 0

\* A faulty variant of HostSamples: the utilization sample is sent before the memory one.
HostSamplesUtilFirst(i, memoryUsed, uuidOk, uuid, utilOk, utilGpu) ==
    (IF utilOk THEN <<HostSample("HostCoreUtilization", utilGpu, i, uuid)>> ELSE <<>>)
    \o (IF uuidOk THEN <<HostSample("HostGPUMemoryUsage", memoryUsed, i, uuid)>> ELSE <<>>)

\* The HostGPUMemoryUsage send is guarded by the GetUUID status alone, the
\* HostCoreUtilization send by the GetUtilizationRates status alone.
HostSamples(i, memoryUsed, uuidOk, uuid, utilOk, utilGpu) ==
    (IF uuidOk THEN <<HostSample("HostGPUMemoryUsage", memoryUsed, i, uuid)>> ELSE <<>>)
    \o (IF utilOk THEN <<HostSample("HostCoreUtilization", utilGpu, i, uuid)>> ELSE <<>>)

----------------------------------------------------------------------------
(* The join of pods and containers (lines 200-285) *)

\* A faulty variant of PodMatches: the pod UID is not compared.
PodMatchesAny(pod, c) == TRUE

\* strings.Compare(string(pod.UID), podUID) != 0 skips the container.
PodMatches(pod, c) == pod.uid = c.podUID

\* strings.Compare(ctr.Name, ctrName) != 0 skips the pod's container.
CtrMatches(name, c) == name = c.containerName

\* A faulty variant of LastSec: the difference is not clamped.
LastSecUnclamped(now, lastKernelTime) == now - lastKernelTime

\* lastSec := nowSec - lastKernelTime; if lastSec < 0 { lastSec = 0 }
LastSec(now, lastKernelTime) ==
    LET lastSec == now - lastKernelTime
    IN  IF lastSec < 0 THEN 0 ELSE lastSec

\* if lastKernelTime > 0 { ... send Device_last_kernel_of_container }
LastKernelSamples(pod, c, i, uuid, now) ==
    IF c.lastKernelTime > 0
    THEN <<Sample("Device_last_kernel_of_container", "gauge",
                  LastSec(now, c.lastKernelTime),
                  pod.namespace, pod.name, c.containerName, Sprint(i), uuid, <<>>)>>
    ELSE <<>>

\* A faulty variant of SlotSamples: the limit gauge carries memoryTotal.
SlotSamplesLimitIsTotal(pod, c, i, uuid, now) ==
    LET d == c.devices[i + 1]
        s(desc, typ, value, extra) ==
            Sample(desc, typ, value, pod.namespace, pod.name, c.containerName,
                   Sprint(i), uuid, extra)
    IN  << s("vGPU_device_memory_usage_in_bytes", "gauge", d.memoryTotal, <<>>),
           s("vGPU_device_memory_limit_in_bytes", "gauge", d.memoryTotal, <<>>),
           s("Device_memory_desc_of_container", "counter", d.memoryTotal,
             <<Sprint(d.contextSize), Sprint(d.moduleSize),
               Sprint(d.bufferSize), Sprint(d.offset)>>),
           s("Device_utilization_desc_of_container", "gauge", d.smUtil, <<>>) >>
        \o LastKernelSamples(pod, c, i, uuid, now)

\* The sends of slot i (0-based) of container c matched with pod, in order.
SlotSamples(pod, c, i, uuid, now) ==
    LET d == c.devices[i + 1]
        s(desc, typ, value, extra) ==
            Sample(desc, typ, value, pod.namespace, pod.name, c.containerName,
                   Sprint(i), uuid, extra)
    IN  << s("vGPU_device_memory_usage_in_bytes", "gauge", d.memoryTotal, <<>>),
           s("vGPU_device_memory_limit_in_bytes", "gauge", d.memoryLimit, <<>>),
           s("Device_memory_desc_of_container", "counter", d.memoryTotal,
             <<Sprint(d.contextSize), Sprint(d.moduleSize),
               Sprint(d.bufferSize), Sprint(d.offset)>>),
           s("Device_utilization_desc_of_container", "gauge", d.smUtil, <<>>) >>
        \o LastKernelSamples(pod, c, i, uuid, now)

NoSamples == [out |-> <<>>, panicked |-> FALSE]

\* for i := 0; i < c.Info.DeviceNum(); i++ : the slice of the UUID panics on
\* a string shorter than 40 bytes, after the sends of the earlier slots.
RECURSIVE SlotLoop(_, _, _, _)
SlotLoop(pod, c, i, now) ==
    IF i >= Len(c.devices) THEN NoSamples
    ELSE IF ~SliceInRange(c.devices[i + 1].uuid, 0, UuidLabelLen)
         THEN [out |-> <<>>, panicked |-> TRUE]
    ELSE LET uuid == Slice(c.devices[i + 1].uuid, 0, UuidLabelLen)
             rest == SlotLoop(pod, c, i + 1, now)
         IN  [out |-> SlotSamples(pod, c, i, uuid, now) \o rest.out,
              panicked |-> rest.panicked]

\* for _, ctr := range pod.Spec.Containers
RECURSIVE CtrLoop(_, _, _, _)
CtrLoop(pod, c, k, now) ==
    IF k > Len(pod.containers) THEN NoSamples
    ELSE IF ~CtrMatches(pod.containers[k], c) THEN CtrLoop(pod, c, k + 1, now)
    ELSE LET r == SlotLoop(pod, c, 0, now)
         IN  IF r.panicked THEN r
             ELSE LET rest == CtrLoop(pod, c, k + 1, now)
                  IN  [out |-> r.out \o rest.out, panicked |-> rest.panicked]

\* One iteration of the container loop for one pod.
PairSamples(pod, c, now) ==
    IF ~c.hasInfo THEN NoSamples
    ELSE IF ~PodMatches(pod, c) THEN NoSamples
    ELSE CtrLoop(pod, c, 1, now)

----------------------------------------------------------------------------
(* Control flow of Collect: the step that follows each call *)

AllSteps == {"update", "nvmlInit", "count", "listPods", "now", "listContainers", "join"}

\* A faulty variant of AfterUpdate: Collect returns when the refresh fails.
AfterUpdateAbort(ok) == IF ok THEN "nvmlInit" ELSE "done"

\* containerLister.Update(): an error is logged, Collect goes on.
AfterUpdate(ok) == "nvmlInit"

\* config.Nvml().Init(): a status other than SUCCESS is logged, Collect goes on.
AfterInit(ok) == "count"

\* DeviceGetCount: on failure the device loop is skipped; on success it runs
\* for ii in [0, devnum).
AfterCount(ok, n) == IF ok /\ 0 < n THEN "device" ELSE "listPods"

\* ii++ ; ii < devnum
AfterDevice(i, n) == IF i + 1 < n THEN "device" ELSE "listPods"

\* PodLister.List: an error is logged, Collect goes on with what was returned.
AfterListPods(ok) == "now"

----------------------------------------------------------------------------
(* State *)

InitLocals ==
    /\ ran = [s \in Callers |-> {}]
    /\ errs = [s \in Callers |-> {}]
    /\ memFailed = [s \in Callers |-> {}]
    /\ uuidFailed = [s \in Callers |-> {}]
    /\ utilFailed = [s \in Callers |-> {}]
    /\ devnum = [s \in Callers |-> 0]
    /\ ii = [s \in Callers |-> 0]
    /\ pods = [s \in Callers |-> <<>>]
    /\ nowSec = [s \in Callers |-> 0]
    /\ containers = [s \in Callers |-> <<>>]
    /\ pidx = [s \in Callers |-> 1]
    /\ cidx = [s \in Callers |-> 1]
    /\ ch = [s \in Callers |-> <<>>]

\* One scrape at a time, on a host of up to MaxDevices GPUs, every
\* collaborator able to fail.
Init ==
    /\ env \in {[callers |-> {1}, devices |-> n, faults |-> FaultKinds,
                 nodes |-> {NodeA, NodeB}, podLists |-> {PodListAB, PodListB},
                 times |-> {100, 300}] : n \in 0..MaxDevices}
    /\ registry = <<>>
    /\ pc = [s \in Callers |-> "idle"]
    /\ InitLocals

\* Two overlapping scrapes on a host of one GPU whose UUID read can fail.
InitConc ==
    /\ env = [callers |-> Callers, devices |-> 1, faults |-> {"uuid"},
              nodes |-> {NodeA}, podLists |-> {PodListAB}, times |-> {300}]
    /\ registry = <<>>
    /\ pc = [s \in Callers |-> "idle"]
    /\ InitLocals

\* A panic in Collect is not recovered: the process is gone.
Running == \A s \in Callers : pc[s] # "panic"

Log(s, kind, ok) == IF ok THEN errs[s] ELSE errs[s] \cup {kind}

----------------------------------------------------------------------------
(* Actions *)

\* The registry calls Collect with a fresh channel.
Start(s) ==
    /\ Running /\ s \in env.callers /\ pc[s] = "idle"
    /\ pc' = [pc EXCEPT ![s] = "update"]
    /\ UNCHANGED <<env, registry, locals>>

\* containerLister.Update() (lines 141-144): on success the lister holds the
\* node's current containers, on error it keeps what it held.
Update(s) ==
    /\ Running /\ pc[s] = "update"
    /\ \E ok \in Outcomes("update"), node \in env.nodes :
        /\ registry' = IF ok THEN node ELSE registry
        /\ errs' = [errs EXCEPT ![s] = Log(s, "update", ok)]
        /\ pc' = [pc EXCEPT ![s] = AfterUpdate(ok)]
    /\ ran' = [ran EXCEPT ![s] = @ \cup {"update"}]
    /\ UNCHANGED <<env, memFailed, uuidFailed, utilFailed, devnum, ii, pods,
                   nowSec, containers, pidx, cidx, ch>>

\* config.Nvml().Init() (lines 146-149)
NvmlInit(s) ==
    /\ Running /\ pc[s] = "nvmlInit"
    /\ \E ok \in Outcomes("init") :
        /\ errs' = [errs EXCEPT ![s] = Log(s, "init", ok)]
        /\ pc' = [pc EXCEPT ![s] = AfterInit(ok)]
    /\ ran' = [ran EXCEPT ![s] = @ \cup {"nvmlInit"}]
    /\ UNCHANGED <<env, registry, memFailed, uuidFailed, utilFailed, devnum, ii,
                   pods, nowSec, containers, pidx, cidx, ch>>

\* config.Nvml().DeviceGetCount() (lines 150-154)
DeviceGetCount(s) ==
    /\ Running /\ pc[s] = "count"
    /\ \E ok \in Outcomes("count") :
        /\ errs' = [errs EXCEPT ![s] = Log(s, "count", ok)]
        /\ devnum' = [devnum EXCEPT ![s] = IF ok THEN env.devices ELSE 0]
        /\ pc' = [pc EXCEPT ![s] = AfterCount(ok, env.devices)]
    /\ ii' = [ii EXCEPT ![s] = 0]
    /\ ran' = [ran EXCEPT ![s] = @ \cup {"count"}]
    /\ UNCHANGED <<env, registry, memFailed, uuidFailed, utilFailed, pods,
                   nowSec, containers, pidx, cidx, ch>>

\* One iteration of the device loop (lines 154-190).  A failed
\* DeviceGetHandleByIndex is only logged: the returned handle is used all the
\* same, and what the reads on it return is the driver's choice.  A failed
\* GetUUID returns the empty string.
Device(s) ==
    /\ Running /\ pc[s] = "device"
    /\ \E hOk \in Outcomes("handle"), mOk \in Outcomes("memory"),
          uOk \in Outcomes("uuid"), tOk \in Outcomes("util") :
        LET i == ii[s]
            memoryUsed == MemoryUsed(mOk, MemoryUsedOf(i))
            uuid == IF uOk THEN DeviceUuidOf(i) ELSE EmptyStr
        IN  /\ ch' = [ch EXCEPT ![s] =
                        @ \o HostSamples(i, memoryUsed, uOk, uuid, tOk, UtilGpuOf(i))]
            /\ memFailed' = [memFailed EXCEPT ![s] = IF mOk THEN @ ELSE @ \cup {i}]
            /\ uuidFailed' = [uuidFailed EXCEPT ![s] = IF uOk THEN @ ELSE @ \cup {i}]
            /\ utilFailed' = [utilFailed EXCEPT ![s] = IF tOk THEN @ ELSE @ \cup {i}]
            /\ ii' = [ii EXCEPT ![s] = i + 1]
            /\ pc' = [pc EXCEPT ![s] = AfterDevice(i, devnum[s])]
    /\ ran' = [ran EXCEPT ![s] = @ \cup {"device"}]
    /\ UNCHANGED <<env, registry, errs, devnum, pods, nowSec, containers, pidx, cidx>>

\* cc.ClusterManager.PodLister.List(labels.Everything()) (lines 193-196): the
\* cache's current content, or no pods with an error.
ListPods(s) ==
    /\ Running /\ pc[s] = "listPods"
    /\ \E ok \in Outcomes("pods"), list \in env.podLists :
        /\ pods' = [pods EXCEPT ![s] = IF ok THEN list ELSE <<>>]
        /\ errs' = [errs EXCEPT ![s] = Log(s, "pods", ok)]
        /\ pc' = [pc EXCEPT ![s] = AfterListPods(ok)]
    /\ ran' = [ran EXCEPT ![s] = @ \cup {"listPods"}]
    /\ UNCHANGED <<env, registry, memFailed, uuidFailed, utilFailed, devnum, ii,
                   nowSec, containers, pidx, cidx, ch>>

\* nowSec := time.Now().Unix() (line 197)
Now(s) ==
    /\ Running /\ pc[s] = "now"
    /\ \E t \in env.times : nowSec' = [nowSec EXCEPT ![s] = t]
    /\ pc' = [pc EXCEPT ![s] = "listContainers"]
    /\ ran' = [ran EXCEPT ![s] = @ \cup {"now"}]
    /\ UNCHANGED <<env, registry, errs, memFailed, uuidFailed, utilFailed, devnum,
                   ii, pods, containers, pidx, cidx, ch>>

\* containers := containerLister.ListContainers() (line 199)
ListContainers(s) ==
    /\ Running /\ pc[s] = "listContainers"
    /\ containers' = [containers EXCEPT ![s] = registry]
    /\ pidx' = [pidx EXCEPT ![s] = 1]
    /\ cidx' = [cidx EXCEPT ![s] = 1]
    /\ pc' = [pc EXCEPT ![s] = "join"]
    /\ ran' = [ran EXCEPT ![s] = @ \cup {"listContainers"}]
    /\ UNCHANGED <<env, registry, errs, memFailed, uuidFailed, utilFailed, devnum,
                   ii, pods, nowSec, ch>>

\* The nested loops over pods and containers (lines 200-285), one
\* (pod, container) iteration per step; the loop ends when the pods are
\* exhausted, and a panic leaves the loop where it stood.
Join(s) ==
    /\ Running /\ pc[s] = "join"
    /\ ran' = [ran EXCEPT ![s] = @ \cup {"join"}]
    /\ IF pidx[s] > Len(pods[s])
       THEN /\ pc' = [pc EXCEPT ![s] = "done"]
            /\ UNCHANGED <<pidx, cidx, ch>>
       ELSE IF cidx[s] > Len(containers[s])
       THEN /\ pidx' = [pidx EXCEPT ![s] = @ + 1]
            /\ cidx' = [cidx EXCEPT ![s] = 1]
            /\ UNCHANGED <<pc, ch>>
       ELSE LET r == PairSamples(pods[s][pidx[s]], containers[s][cidx[s]], nowSec[s])
            IN  /\ ch' = [ch EXCEPT ![s] = @ \o r.out]
                /\ pc' = [pc EXCEPT ![s] = IF r.panicked THEN "panic" ELSE "join"]
                /\ cidx' = [cidx EXCEPT ![s] = IF r.panicked THEN @ ELSE @ + 1]
                /\ UNCHANGED pidx
    /\ UNCHANGED <<env, registry, errs, memFailed, uuidFailed, utilFailed, devnum,
                   ii, pods, nowSec, containers>>

\* Collect returns; the next scrape calls it again with fresh locals.
Return(s) ==
    /\ Running /\ pc[s] = "done"
    /\ pc' = [pc EXCEPT ![s] = "idle"]
    /\ ran' = [ran EXCEPT ![s] = {}]
    /\ errs' = [errs EXCEPT ![s] = {}]
    /\ memFailed' = [memFailed EXCEPT ![s] = {}]
    /\ uuidFailed' = [uuidFailed EXCEPT ![s] = {}]
    /\ utilFailed' = [utilFailed EXCEPT ![s] = {}]
    /\ devnum' = [devnum EXCEPT ![s] = 0]
    /\ ii' = [ii EXCEPT ![s] = 0]
    /\ pods' = [pods EXCEPT ![s] = <<>>]
    /\ nowSec' = [nowSec EXCEPT ![s] = 0]
    /\ containers' = [containers EXCEPT ![s] = <<>>]
    /\ pidx' = [pidx EXCEPT ![s] = 1]
    /\ cidx' = [cidx EXCEPT ![s] = 1]
    /\ ch' = [ch EXCEPT ![s] = <<>>]
    /\ UNCHANGED <<env, registry>>

Next ==
    \E s \in Callers :
        \/ Start(s)
        \/ Update(s)
        \/ NvmlInit(s)
        \/ DeviceGetCount(s)
        \/ Device(s)
        \/ ListPods(s)
        \/ Now(s)
        \/ ListContainers(s)
        \/ Join(s)
        \/ Return(s)

Spec == Init /\ [][Next]_vars

SpecConc == InitConc /\ [][Next]_vars

----------------------------------------------------------------------------
(* Vocabulary of the properties *)

\* The positions of ch[s] that hold a sample of one of the descriptors.
Sent(s, descs) == {n \in 1..Len(ch[s]) : ch[s][n].desc \in descs}

\* The first 40 bytes of a string of at least 40 bytes.
First40(str) == [j \in 1..40 |-> str[j]]

\* The first 40 bytes of a string, or all of it when it is shorter.
Prefix40(str) == [j \in 1..(IF Len(str) < 40 THEN Len(str) ELSE 40) |-> str[j]]

\* Pod p of the pod list and container c of the container list of call s
\* are one pod and one of its containers: same UID, a declared name.
Matched(s, p, c) ==
    /\ containers[s][c].hasInfo
    /\ pods[s][p].uid = containers[s][c].podUID
    /\ \E k \in 1..Len(pods[s][p].containers) :
          pods[s][p].containers[k] = containers[s][c].containerName

\* The (pod, container) iterations the join of call s has completed.
Processed(s) ==
    {pr \in (1..Len(pods[s])) \X (1..Len(containers[s])) :
        \/ pc[s] = "done"
        \/ /\ pc[s] \in {"join", "panic"}
           /\ \/ pr[1] < pidx[s]
              \/ pr[1] = pidx[s] /\ pr[2] < cidx[s]}

\* Sample e carries the labels of slot i of pair (p, c) of call s.
LabelledFor(s, e, p, c, i) ==
    /\ e.podnamespace = pods[s][p].namespace
    /\ e.podname = pods[s][p].name
    /\ e.ctrname = containers[s][c].containerName
    /\ e.idx = Sprint(i)

\* The samples of descriptor desc that call s sent for slot i of pair (p, c).
SentFor(s, desc, p, c, i) ==
    {n \in 1..Len(ch[s]) : ch[s][n].desc = desc /\ LabelledFor(s, ch[s][n], p, c, i)}

SlotsOf(s, c) == 0..(Len(containers[s][c].devices) - 1)

----------------------------------------------------------------------------
(* C1 *)

\* C1: every per-container sample of a Collect call carries the namespace and
\* name of a listed pod and the name of a listed container such that the pod's
\* UID equals the container's podUID exactly and the pod declares that
\* container name (and the slot and its UUID are that container's); so a pod
\* or a container without counterpart yields no sample, and when no pod UID
\* equals any podUID the call sends no per-container sample.
C1_SamplesAttributable ==
    \A s \in Callers :
        /\ \A n \in Sent(s, CtrDescs) :
              \E p \in 1..Len(pods[s]), c \in 1..Len(containers[s]) :
                  /\ Matched(s, p, c)
                  /\ \E i \in SlotsOf(s, c) :
                        /\ LabelledFor(s, ch[s][n], p, c, i)
                        /\ ch[s][n].deviceuuid = Prefix40(containers[s][c].devices[i + 1].uuid)
        /\ (\A p \in 1..Len(pods[s]), c \in 1..Len(containers[s]) :
                pods[s][p].uid # containers[s][c].podUID)
              => Sent(s, CtrDescs) = {}

\* A finished call that sent per-container samples although one listed
\* container has no pod and one listed pod has no usable container.
C1_Witness ==
    \E s \in Callers :
        /\ pc[s] = "done"
        /\ Sent(s, CtrDescs) # {}
        /\ \E c \in 1..Len(containers[s]) : \A p \in 1..Len(pods[s]) : ~Matched(s, p, c)
        /\ \E p \in 1..Len(pods[s]) : \A c \in 1..Len(containers[s]) : ~Matched(s, p, c)

----------------------------------------------------------------------------
(* C2 *)

\* C2: for every matched (pod, container) pair whose iteration the join has
\* completed and every slot of the container, the call has sent exactly one
\* usage gauge (= memoryTotal), one limit gauge (= memoryLimit), one memory
\* description counter (= memoryTotal, with the stringified context, module,
\* buffer and offset sizes as extra labels) and one utilization gauge
\* (= smUtil), each labelled namespace, pod name, container name, decimal slot
\* index and the first 40 bytes of the UUID; and no per-container sample is
\* ever sent twice.
C2_FourSamplesPerSlot ==
    \A s \in Callers :
        /\ \A pr \in Processed(s) :
              Matched(s, pr[1], pr[2]) =>
                \A i \in SlotsOf(s, pr[2]) :
                    LET d == containers[s][pr[2]].devices[i + 1]
                        one(desc, typ, value, extra) ==
                            /\ Cardinality(SentFor(s, desc, pr[1], pr[2], i)) = 1
                            /\ \A n \in SentFor(s, desc, pr[1], pr[2], i) :
                                  /\ ch[s][n].typ = typ
                                  /\ ch[s][n].value = value
                                  /\ ch[s][n].extra = extra
                                  /\ ch[s][n].deviceuuid = First40(d.uuid)
                    IN  /\ one("vGPU_device_memory_usage_in_bytes", "gauge", d.memoryTotal, <<>>)
                        /\ one("vGPU_device_memory_limit_in_bytes", "gauge", d.memoryLimit, <<>>)
                        /\ one("Device_memory_desc_of_container", "counter", d.memoryTotal,
                               <<Sprint(d.contextSize), Sprint(d.moduleSize),
                                 Sprint(d.bufferSize), Sprint(d.offset)>>)
                        /\ one("Device_utilization_desc_of_container", "gauge", d.smUtil, <<>>)
        /\ Cardinality({<<ch[s][n].desc, ch[s][n].podnamespace, ch[s][n].podname,
                          ch[s][n].ctrname, ch[s][n].idx>> : n \in Sent(s, CtrDescs)})
              = Cardinality(Sent(s, CtrDescs))

\* A finished call that matched pod p1 with container c1 (total 1024, limit
\* 2048, smUtil 55 in slot 0, 41-byte UUID) and sent the samples of its second
\* slot too.
C2_Witness ==
    \E s \in Callers :
        /\ pc[s] = "done"
        /\ \E n \in Sent(s, {"vGPU_device_memory_limit_in_bytes"}) :
              /\ ch[s][n].value = 2048 /\ ch[s][n].idx = <<"0">>
              /\ ch[s][n].podname = "pod-a" /\ ch[s][n].ctrname = "c1"
        /\ \E n \in Sent(s, {"Device_utilization_desc_of_container"}) :
              /\ ch[s][n].value = 7 /\ ch[s][n].idx = <<"1">>

----------------------------------------------------------------------------
(* C3 *)

\* The steps Collect has behind it when it stands at a step.
StepsBefore(at) ==
    CASE at \in {"idle", "update"} -> {}
      [] at = "nvmlInit" -> {"update"}
      [] at \in {"count"} -> {"update", "nvmlInit"}
      [] at \in {"device", "listPods"} -> {"update", "nvmlInit", "count"}
      [] at = "now" -> {"update", "nvmlInit", "count", "listPods"}
      [] at = "listContainers" -> {"update", "nvmlInit", "count", "listPods", "now"}
      [] at = "join" -> {"update", "nvmlInit", "count", "listPods", "now", "listContainers"}
      [] at \in {"panic", "done"} -> AllSteps

\* C3: whatever errors the collaborators returned, a Collect call has run
\* every step that precedes the one it stands at; once past the device loop
\* with a successful count it has visited every device whatever reads failed;
\* when it has returned it has run the refresh, Init, the count, the pod
\* list, the clock read, the container list and the whole join; and the only
\* abnormal end is the slice of a UUID shorter than 40 bytes, never an error.
C3_ErrorsNeverAbort ==
    \A s \in Callers :
        /\ StepsBefore(pc[s]) \subseteq ran[s]
        /\ (pc[s] \in {"listPods", "now", "listContainers", "join", "done", "panic"}
              /\ "count" \notin errs[s])
              => /\ ii[s] = env.devices
                 /\ (env.devices > 0 => "device" \in ran[s])
        /\ pc[s] = "done" => pidx[s] = Len(pods[s]) + 1
        /\ pc[s] = "panic" =>
              /\ pidx[s] \in 1..Len(pods[s]) /\ cidx[s] \in 1..Len(containers[s])
              /\ Matched(s, pidx[s], cidx[s])
              /\ \E i \in SlotsOf(s, cidx[s]) :
                    Len(containers[s][cidx[s]].devices[i + 1].uuid) < 40

\* A call that returned after the refresh, Init and the device count all
\* failed, and still listed pods and containers and sent per-container samples.
C3_Witness ==
    \E s \in Callers :
        /\ pc[s] = "done"
        /\ {"update", "init", "count"} \subseteq errs[s]
        /\ Sent(s, CtrDescs) # {}

----------------------------------------------------------------------------
(* C7 *)

\* C7: for every slot of a matched pair whose iteration the join has
\* completed, the call has sent one last-kernel sample if lastKernelTime > 0
\* and none otherwise; every last-kernel sample sent belongs to a container
\* with lastKernelTime > 0 and its value is max(0, nowSec - lastKernelTime)
\* for the call's one clock reading, hence never negative.
C7_LastKernelAge ==
    \A s \in Callers :
        /\ \A pr \in Processed(s) :
              Matched(s, pr[1], pr[2]) =>
                \A i \in SlotsOf(s, pr[2]) :
                    Cardinality(SentFor(s, "Device_last_kernel_of_container", pr[1], pr[2], i))
                      = IF containers[s][pr[2]].lastKernelTime > 0 THEN 1 ELSE 0
        /\ \A n \in Sent(s, {"Device_last_kernel_of_container"}) :
              /\ ch[s][n].value >= 0
              /\ \E p \in 1..Len(pods[s]), c \in 1..Len(containers[s]) :
                    LET last == containers[s][c].lastKernelTime
                    IN  /\ Matched(s, p, c)
                        /\ \E i \in SlotsOf(s, c) : LabelledFor(s, ch[s][n], p, c, i)
                        /\ last > 0
                        /\ ch[s][n].value = IF nowSec[s] - last > 0
                                            THEN nowSec[s] - last ELSE 0

\* A finished call whose clock read 100: it sent a last-kernel sample of
\* value 0 for a container whose last kernel is 100 seconds ahead, and none
\* for a matched container with lastKernelTime = 0.
C7_Witness ==
    \E s \in Callers :
        /\ pc[s] = "done"
        /\ nowSec[s] = 100
        /\ \E n \in Sent(s, {"Device_last_kernel_of_container"}) : ch[s][n].value = 0
        /\ \E pr \in Processed(s) :
              /\ Matched(s, pr[1], pr[2])
              /\ containers[s][pr[2]].lastKernelTime = 0
              /\ SentFor(s, "vGPU_device_memory_usage_in_bytes", pr[1], pr[2], 0) # {}

----------------------------------------------------------------------------
(* C10 *)

DescRank(desc) ==
    CASE desc = "HostGPUMemoryUsage" -> 0
      [] desc = "HostCoreUtilization" -> 1
      [] desc = "vGPU_device_memory_usage_in_bytes" -> 0
      [] desc = "vGPU_device_memory_limit_in_bytes" -> 1
      [] desc = "Device_memory_desc_of_container" -> 2
      [] desc = "Device_utilization_desc_of_container" -> 3
      [] desc = "Device_last_kernel_of_container" -> 4

\* The number a decimal label stands for.
IndexOf(label) == CHOOSE i \in 0..9 : Sprint(i) = label

\* Where a sample belongs: host samples by device and metric; per-container
\* samples, after all host samples, by the position of the pod in the pod
\* list, of the container in the container list, by slot and by metric.
OrderKey(s, e) ==
    IF e.desc \in HostDescs
    THEN <<0, IndexOf(e.idx), DescRank(e.desc), 0, 0>>
    ELSE LET p == CHOOSE p \in 1..Len(pods[s]) :
                      pods[s][p].namespace = e.podnamespace /\ pods[s][p].name = e.podname
             c == CHOOSE c \in 1..Len(containers[s]) :
                      /\ containers[s][c].hasInfo
                      /\ containers[s][c].podUID = pods[s][p].uid
                      /\ containers[s][c].containerName = e.ctrname
         IN  <<1, p, c, IndexOf(e.idx), DescRank(e.desc)>>

LexLess(a, b) ==
    \E j \in 1..5 : a[j] < b[j] /\ \A t \in 1..(j - 1) : a[t] = b[t]

----------------------------------------------------------------------------
(* C4, C5, C6, C8, C9 *)

HostSent(s, desc, i) == {n \in Sent(s, {desc}) : ch[s][n].idx = Sprint(i)}

\* C4: a device whose UUID read failed has neither host sample in that call,
\* and every device visited whose reads all succeeded has both.
C4_UuidFailureOmitsBoth ==
    \A s \in Callers :
        /\ \A i \in uuidFailed[s] :
              /\ HostSent(s, "HostGPUMemoryUsage", i) = {}
              /\ HostSent(s, "HostCoreUtilization", i) = {}
        /\ \A i \in 0..(ii[s] - 1) :
              i \notin (memFailed[s] \cup uuidFailed[s] \cup utilFailed[s])
                => /\ HostSent(s, "HostGPUMemoryUsage", i) # {}
                   /\ HostSent(s, "HostCoreUtilization", i) # {}

\* C5: every HostGPUMemoryUsage sample carries the value a successful memory
\* read of its device returned in that call; a device whose memory read failed
\* has no HostGPUMemoryUsage sample and a device whose utilization read failed
\* has no HostCoreUtilization sample.
C5_FailedReadOmitsMetric ==
    \A s \in Callers :
        /\ \A n \in Sent(s, {"HostGPUMemoryUsage"}) :
              /\ IndexOf(ch[s][n].idx) \notin memFailed[s]
              /\ ch[s][n].value = MemoryUsedOf(IndexOf(ch[s][n].idx))
        /\ \A i \in memFailed[s] : HostSent(s, "HostGPUMemoryUsage", i) = {}
        /\ \A i \in utilFailed[s] : HostSent(s, "HostCoreUtilization", i) = {}

\* C6: a call whose Init failed or whose device count failed runs no
\* iteration of the device loop and sends no host sample.
C6_InitOrCountFailureSkipsDevices ==
    \A s \in Callers :
        ("init" \in errs[s] \/ "count" \in errs[s])
            => /\ "device" \notin ran[s]
               /\ Sent(s, HostDescs) = {}

\* C8: for every slot of every matched pair the join has taken up, whatever
\* the length of the slot's UUID, the call sends the slot's samples with the
\* first 40 bytes of that UUID (all of it when it is shorter) as deviceuuid.
C8_UuidLabelAnyLength ==
    \A s \in Callers :
        \A p \in 1..Len(pods[s]), c \in 1..Len(containers[s]) :
            (/\ Matched(s, p, c)
             /\ \/ <<p, c>> \in Processed(s)
                \/ pc[s] = "panic" /\ p = pidx[s] /\ c = cidx[s])
            => \A i \in SlotsOf(s, c) :
                  \E n \in SentFor(s, "vGPU_device_memory_usage_in_bytes", p, c, i) :
                      ch[s][n].deviceuuid = Prefix40(containers[s][c].devices[i + 1].uuid)

\* A call is inside the driver sequence from its Init to the end of its
\* device loop.
InDriver(s) == pc[s] \in {"count", "device"}

\* C9: at most one Collect call at a time is inside the Init, device count
\* and per-device read sequence.
C9_DriverSerialized == Cardinality({s \in Callers : InDriver(s)}) <= 1

============================================================================
